---- MODULE Spec2Model ----
(***************************************************************************)
(* Model of MeetingService (src/unnamed/part_001): the lifecycle of a      *)
(* channel's video meeting over the ChannelMeeting and                     *)
(* ChannelMeetingParticipant tables (src/unnamed/part_000) and the Daily   *)
(* room provider.  Every handler is an async function: each `await` on the *)
(* database or on the provider is one atomic step, and the steps of        *)
(* concurrent requests interleave freely.  Reads of tables the service     *)
(* never writes (Channel, ChannelMember, User) are folded into the step    *)
(* next to them.                                                           *)
(***************************************************************************)
EXTENDS Integers, Sequences, FiniteSets, TLC

\* ---------------------------------------------------------------- bounds
MaxCalls == 3        \* requests served in one behaviour
MaxTime == 2         \* clock values 1..MaxTime

\* SQL NULL for the nullable columns, and "no row" for a findFirst that matches nothing
NULL == 0

Procs == {1, 2}                       \* concurrent request handlers
Users == {"A", "B"}                   \* rows of User
Channels == {"c1", "c2"}              \* rows of Channel
ChannelIds == {"c1", "c2", "c9"}      \* channel ids sent to startMeeting; c9 is no row
RoomNames == 1..(MaxCalls + 1)        \* room names a webhook may send

\* ChannelMember joined with Role.  In c1, A is the channel admin and B a plain
\* member; in c2, A is a plain member and B has no membership record.
ChannelMemberRole(channelId, userId) ==
    IF channelId = "c1" /\ userId = "A" THEN "CHANNEL_ADMIN"
    ELSE IF channelId = "c1" /\ userId = "B" THEN "CHANNEL_MEMBER"
    ELSE IF channelId = "c2" /\ userId = "A" THEN "CHANNEL_MEMBER"
    ELSE "none"

VARIABLES
    meetings,      \* table ChannelMeeting: sequence of rows, id = index
    participants,  \* table ChannelMeetingParticipant: sequence of rows, id = index
    now,           \* the clock read by new Date()
    dailyRooms,    \* provider: number of rooms created so far (room names 1..dailyRooms)
    dailyLive,     \* provider: rooms that still exist
    deleteCalls,   \* provider: DELETE /rooms/<name> requests received, per room name
    proc,          \* per request handler: position, arguments, locals, result
    calls          \* requests served so far

vars == <<meetings, participants, now, dailyRooms, dailyLive, deleteCalls, proc, calls>>

\* ------------------------------------------------------- database queries
NoRow == [id |-> NULL, meetingId |-> NULL, userId |-> "", joinedAt |-> NULL, leftAt |-> NULL]

\* channelMeeting.findFirst({ where: { channelId, isActive: true } }): no ORDER BY,
\* so any matching row may come back; NULL when none matches
ActiveByChannel(ms, channelId) ==
    {i \in 1..Len(ms) : ms[i].channelId = channelId /\ ms[i].isActive}

FindActiveByChannel(ms, channelId) ==
    IF ActiveByChannel(ms, channelId) = {} THEN {NULL} ELSE ActiveByChannel(ms, channelId)

\* a lookup by room name that forgets the isActive filter
FindByRoomAnyState(ms, roomName) ==
    LET hit == {i \in 1..Len(ms) : ms[i].roomName = roomName}
    IN  IF hit = {} THEN {NULL} ELSE hit

\* channelMeeting.findFirst({ where: { roomName, isActive: true } })
FindActiveByRoom(ms, roomName) ==
    LET hit == {i \in 1..Len(ms) : ms[i].roomName = roomName /\ ms[i].isActive}
    IN  IF hit = {} THEN {NULL} ELSE hit

\* channelMeetingParticipant.findFirst({ where: { meetingId, userId } })
FindParticipant(ps, meetingId, userId) ==
    LET hit == {i \in 1..Len(ps) : ps[i].meetingId = meetingId /\ ps[i].userId = userId}
    IN  IF hit = {} THEN {NoRow} ELSE {ps[i] : i \in hit}

\* the rows matched by where: { meetingId, leftAt: null }
Present(ps, meetingId) ==
    {i \in 1..Len(ps) : ps[i].meetingId = meetingId /\ ps[i].leftAt = NULL}

\* a count that forgets the leftAt filter
CountAllRows(ps, meetingId) ==
    Cardinality({i \in 1..Len(ps) : ps[i].meetingId = meetingId})

\* channelMeetingParticipant.count({ where: { meetingId, leftAt: null } })
CountPresent(ps, meetingId) ==
    Cardinality({i \in 1..Len(ps) : ps[i].meetingId = meetingId /\ ps[i].leftAt = NULL})

\* ------------------------------------------------------- database writes
\* tx.channelMeeting.create with the nested participants.create: the Meeting row
NewMeeting(ms, channelId, userId, roomName) ==
    [id |-> Len(ms) + 1, channelId |-> channelId, hostId |-> userId,
     roomUrl |-> roomName, roomName |-> roomName, isActive |-> TRUE, endedAt |-> NULL]

\* a new Participant row (leftAt defaults to NULL)
NewParticipant(ps, meetingId, userId, t) ==
    [id |-> Len(ps) + 1, meetingId |-> meetingId, userId |-> userId,
     joinedAt |-> t, leftAt |-> NULL]

\* a start that writes the Meeting row without the nested participant
NoHostParticipant(ps, meetingId, userId, t) == ps

\* the host's row, created by the nested write of startMeeting
HostParticipant(ps, meetingId, userId, t) ==
    Append(ps, NewParticipant(ps, meetingId, userId, t))

\* channelMeetingParticipant.create({ data: { meetingId, userId } })
CreateParticipant(ps, meetingId, userId, t) ==
    Append(ps, NewParticipant(ps, meetingId, userId, t))

\* channelMeetingParticipant.update({ where: { id }, data: { leftAt: null } })
RejoinParticipant(ps, id, t) ==
    [ps EXCEPT ![id] = [@ EXCEPT !.leftAt = NULL]]

\* updateMany({ where: { meetingId, userId, leftAt: null }, data: { leftAt: new Date() } })
MarkLeft(ps, meetingId, userId, t) ==
    [i \in 1..Len(ps) |->
        IF ps[i].meetingId = meetingId /\ ps[i].userId = userId /\ ps[i].leftAt = NULL
        THEN [ps[i] EXCEPT !.leftAt = t] ELSE ps[i]]

\* updateMany({ where: { meetingId, leftAt: null }, data: { leftAt: new Date() } })
MarkAllLeft(ps, meetingId, t) ==
    [i \in 1..Len(ps) |->
        IF ps[i].meetingId = meetingId /\ ps[i].leftAt = NULL
        THEN [ps[i] EXCEPT !.leftAt = t] ELSE ps[i]]

\* an end that clears isActive and forgets endedAt
EndMeetingRowWithoutEndedAt(ms, id, t) ==
    [ms EXCEPT ![id] = [@ EXCEPT !.isActive = FALSE]]

\* an end that writes endedAt and leaves isActive as it was
EndMeetingRowStampsOnly(ms, id, t) ==
    [ms EXCEPT ![id] = [@ EXCEPT !.endedAt = t]]

\* an end that flips isActive instead of clearing it
EndMeetingRowToggles(ms, id, t) ==
    [ms EXCEPT ![id] = [@ EXCEPT !.isActive = ~@, !.endedAt = t]]

\* channelMeeting.update({ where: { id }, data: { isActive: false, endedAt: new Date() } })
EndMeetingRow(ms, id, t) ==
    [ms EXCEPT ![id] = [@ EXCEPT !.isActive = FALSE, !.endedAt = t]]

\* ------------------------------------------------------- request handlers
Nothing == [none |-> TRUE]
NoResult == [exc |-> "", message |-> "", value |-> Nothing]

Idle == [pc |-> "idle", op |-> "", channelId |-> "", userId |-> "", roomName |-> NULL,
         room |-> NULL, meeting |-> NULL, existing |-> NoRow, remaining |-> NULL,
         wasPresent |-> {}, result |-> NoResult]

\* a handler entered with its arguments
Call(op, channelId, userId, roomName) ==
    [Idle EXCEPT !.pc = "called", !.op = op, !.channelId = channelId,
                 !.userId = userId, !.roomName = roomName]

\* the handler returns `value`
Return(self, value) ==
    [self EXCEPT !.pc = "done", !.existing = NoRow, !.remaining = NULL,
                 !.wasPresent = {},
                 !.result = [exc |-> "", message |-> "", value |-> value]]

\* the handler throws
Throw(self, exc, message) ==
    [self EXCEPT !.pc = "done", !.existing = NoRow, !.remaining = NULL,
                 !.wasPresent = {},
                 !.result = [exc |-> exc, message |-> message, value |-> Nothing]]

\* A finished handler takes no further step, so its response is delivered (Respond)
\* before any other step is taken: no behaviour of the tables is lost, and at most
\* one response is pending in any state.
Settled == \A q \in Procs : proc[q].pc # "done"

At(p, pc) == Settled /\ proc[p].pc = pc

\* a request goes to an idle handler; the handlers are interchangeable, so it goes to
\* the first idle one
CanCall(p) ==
    /\ At(p, "idle")
    /\ \A q \in Procs : proc[q].pc = "idle" => p <= q

\* one more request is served
Admit(p) ==
    /\ calls < MaxCalls
    /\ calls' = calls + 1

\* ------------------------------------------------------- room provider
\* deleteDailyRoom: nothing without a room name; otherwise one DELETE request, whose
\* failure is logged and swallowed.  `ok` is the provider's answer.
DeleteDailyRoom(roomName, ok) ==
    IF roomName = NULL
    THEN UNCHANGED <<dailyLive, deleteCalls>>
    ELSE /\ deleteCalls' = [deleteCalls EXCEPT ![roomName] = @ + 1]
         /\ dailyLive' = IF ok THEN dailyLive \ {roomName} ELSE dailyLive

\* the token Daily signs for a meeting-tokens request
MintToken(roomName, userId, isOwner) ==
    [room_name |-> roomName, user_id |-> userId, is_owner |-> isOwner]

\* ------------------------------------------------------- startMeeting
\* what startMeeting returns: the created row with its participants included
StartResult(meeting, rows) ==
    [id |-> meeting.id, channelId |-> meeting.channelId, hostId |-> meeting.hostId,
     roomUrl |-> meeting.roomUrl, roomName |-> meeting.roomName,
     isActive |-> meeting.isActive, endedAt |-> meeting.endedAt,
     participants |-> rows]

\* a start that asks the provider for the room before it looks the channel up
StartMeetingCreatesRoomFirst(p, channelId, userId) ==
    /\ CanCall(p)
    /\ LET self == Call("startMeeting", channelId, userId, NULL) IN
       \/ /\ proc' = [proc EXCEPT ![p] =
                        Throw(self, "BadRequestException", "Failed to create Daily room")]
          /\ UNCHANGED <<dailyRooms, dailyLive, deleteCalls>>
       \/ /\ dailyRooms' = dailyRooms + 1
          /\ dailyLive' = dailyLive \cup {dailyRooms + 1}
          /\ deleteCalls' = Append(deleteCalls, 0)
          /\ proc' = [proc EXCEPT ![p] =
                        IF channelId \notin Channels
                        THEN Throw(self, "BadRequestException", "Channel not found")
                        ELSE [self EXCEPT !.pc = "start_find", !.room = dailyRooms + 1]]
    /\ Admit(p)
    /\ UNCHANGED <<meetings, participants, now>>

\* a start that goes on to the transaction although the provider gave no room
StartMeetingGoesOnWithoutRoom(p, channelId, userId) ==
    /\ CanCall(p)
    /\ LET self == Call("startMeeting", channelId, userId, NULL) IN
       \/ /\ channelId \notin Channels
          /\ proc' = [proc EXCEPT ![p] =
                        Throw(self, "BadRequestException", "Channel not found")]
          /\ UNCHANGED <<dailyRooms, dailyLive, deleteCalls>>
       \/ /\ channelId \in Channels
          /\ proc' = [proc EXCEPT ![p] = [self EXCEPT !.pc = "start_find"]]
          /\ UNCHANGED <<dailyRooms, dailyLive, deleteCalls>>
       \/ /\ channelId \in Channels
          /\ dailyRooms' = dailyRooms + 1
          /\ dailyLive' = dailyLive \cup {dailyRooms + 1}
          /\ deleteCalls' = Append(deleteCalls, 0)
          /\ proc' = [proc EXCEPT ![p] =
                        [self EXCEPT !.pc = "start_find", !.room = dailyRooms + 1]]
    /\ Admit(p)
    /\ UNCHANGED <<meetings, participants, now>>

\* the channel lookup, then createDailyRoom: one POST /rooms, which may fail, answer
\* without a room name or id, or create the room
StartMeeting(p, channelId, userId) ==
    /\ CanCall(p)
    /\ LET self == Call("startMeeting", channelId, userId, NULL) IN
       \/ /\ channelId \notin Channels
          /\ proc' = [proc EXCEPT ![p] =
                        Throw(self, "BadRequestException", "Channel not found")]
          /\ UNCHANGED <<dailyRooms, dailyLive, deleteCalls>>
       \/ /\ channelId \in Channels
          /\ proc' = [proc EXCEPT ![p] =
                        Throw(self, "BadRequestException", "Failed to create Daily room")]
          /\ UNCHANGED <<dailyRooms, dailyLive, deleteCalls>>
       \/ /\ channelId \in Channels
          /\ proc' = [proc EXCEPT ![p] =
                        Throw(self, "BadRequestException",
                              "Failed to create Daily room: Daily API responded without room name/id")]
          /\ UNCHANGED <<dailyRooms, dailyLive, deleteCalls>>
       \/ /\ channelId \in Channels
          /\ dailyRooms' = dailyRooms + 1
          /\ dailyLive' = dailyLive \cup {dailyRooms + 1}
          /\ deleteCalls' = Append(deleteCalls, 0)
          /\ proc' = [proc EXCEPT ![p] =
                        [self EXCEPT !.pc = "start_find", !.room = dailyRooms + 1]]
    /\ Admit(p)
    /\ UNCHANGED <<meetings, participants, now>>

\* a start that answers with the meeting it found instead of failing
StartCheckReturnsExisting(self, existing) ==
    IF existing # NULL
    THEN Return([self EXCEPT !.meeting = existing],
                StartResult(meetings[existing],
                            FindParticipant(participants, existing,
                                            meetings[existing].hostId)))
    ELSE [self EXCEPT !.pc = "start_create"]

\* if (existing) throw BadRequestException('Meeting already active'), which the catch
\* around the transaction throws again under the same message
StartCheck(self, existing) ==
    IF existing # NULL
    THEN Throw(self, "BadRequestException", "Meeting already active")
    ELSE [self EXCEPT !.pc = "start_create"]

\* a start that deletes the room it created when the transaction aborts
StartFindExistingCleansUp(p) ==
    /\ At(p, "start_find")
    /\ UNCHANGED calls
    /\ \E existing \in FindActiveByChannel(meetings, proc[p].channelId) :
          /\ proc' = [proc EXCEPT ![p] = StartCheck(@, existing)]
          /\ IF existing # NULL
             THEN \E ok \in BOOLEAN : DeleteDailyRoom(proc[p].room, ok)
             ELSE UNCHANGED <<dailyLive, deleteCalls>>
    /\ UNCHANGED <<meetings, participants, now, dailyRooms>>

\* inside $transaction: the findFirst of an active meeting, read from the snapshot
StartFindExisting(p) ==
    /\ At(p, "start_find")
    /\ UNCHANGED calls
    /\ \E existing \in FindActiveByChannel(meetings, proc[p].channelId) :
          proc' = [proc EXCEPT ![p] = StartCheck(@, existing)]
    /\ UNCHANGED <<meetings, participants, now, dailyRooms, dailyLive, deleteCalls>>

\* inside $transaction: the create of the Meeting row and the host's row, committed
\* together; no unique key rejects a second active row of the channel
StartCreate(p) ==
    /\ At(p, "start_create")
    /\ UNCHANGED calls
    /\ LET self == proc[p]
           row == NewMeeting(meetings, self.channelId, self.userId, self.room)
           ps == HostParticipant(participants, row.id, self.userId, now)
       IN  /\ meetings' = Append(meetings, row)
           /\ participants' = ps
           /\ proc' = [proc EXCEPT ![p] =
                         Return([self EXCEPT !.meeting = row.id],
                                StartResult(row, FindParticipant(ps, row.id, self.userId)))]
    /\ UNCHANGED <<now, dailyRooms, dailyLive, deleteCalls>>

\* ------------------------------------------------------- getMeeting
\* a projection that returns the row as it is stored
WholeMeeting(meeting, ps) ==
    [id |-> meeting.id, channelId |-> meeting.channelId, hostId |-> meeting.hostId,
     roomUrl |-> meeting.roomUrl, roomName |-> meeting.roomName,
     isActive |-> meeting.isActive, endedAt |-> meeting.endedAt,
     participants |-> {ps[i] : i \in {j \in 1..Len(ps) : ps[j].meetingId = meeting.id}}]

\* const { roomUrl, roomName, ...safeMeeting } = meeting, participants included
SafeMeeting(meeting, ps) ==
    [id |-> meeting.id, channelId |-> meeting.channelId, hostId |-> meeting.hostId,
     isActive |-> meeting.isActive, endedAt |-> meeting.endedAt,
     participants |-> {ps[i] : i \in {j \in 1..Len(ps) : ps[j].meetingId = meeting.id}}]

GetMeeting(p, channelId) ==
    /\ CanCall(p)
    /\ \E meeting \in FindActiveByChannel(meetings, channelId) :
          LET self == Call("getMeeting", channelId, "", NULL) IN
          proc' = [proc EXCEPT ![p] =
                     IF meeting = NULL
                     THEN Return(self, [null |-> TRUE])
                     ELSE Return([self EXCEPT !.meeting = meeting],
                                 SafeMeeting(meetings[meeting], participants))]
    /\ Admit(p)
    /\ UNCHANGED <<meetings, participants, now, dailyRooms, dailyLive, deleteCalls>>

\* ------------------------------------------------------- joinMeeting
\* a join that looks up the meeting without the membership check
JoinMeetingSkipsMembership(p, channelId, userId) ==
    /\ CanCall(p)
    /\ \E meeting \in FindActiveByChannel(meetings, channelId) :
          LET self == Call("joinMeeting", channelId, userId, NULL) IN
          proc' = [proc EXCEPT ![p] =
                     IF meeting = NULL
                     THEN Throw(self, "BadRequestException", "No active meeting")
                     ELSE [self EXCEPT !.pc = "join_find", !.meeting = meeting]]
    /\ Admit(p)
    /\ UNCHANGED <<meetings, participants, now, dailyRooms, dailyLive, deleteCalls>>

\* the membership lookup and the findFirst of the channel's active meeting
JoinMeeting(p, channelId, userId) ==
    /\ CanCall(p)
    /\ \E meeting \in FindActiveByChannel(meetings, channelId) :
          LET self == Call("joinMeeting", channelId, userId, NULL) IN
          proc' = [proc EXCEPT ![p] =
                     IF ChannelMemberRole(channelId, userId) = "none"
                     THEN Throw(self, "ForbiddenException",
                                "You are not a member of the channel")
                     ELSE IF meeting = NULL
                     THEN Throw(self, "BadRequestException", "No active meeting")
                     ELSE [self EXCEPT !.pc = "join_find", !.meeting = meeting]]
    /\ Admit(p)
    /\ UNCHANGED <<meetings, participants, now, dailyRooms, dailyLive, deleteCalls>>

\* the findFirst of the caller's Participant row
JoinFindExisting(p) ==
    /\ At(p, "join_find")
    /\ UNCHANGED calls
    /\ \E existing \in FindParticipant(participants, proc[p].meeting, proc[p].userId) :
          proc' = [proc EXCEPT ![p] = [@ EXCEPT !.pc = "join_upsert",
                                                !.existing = existing]]
    /\ UNCHANGED <<meetings, participants, now, dailyRooms, dailyLive, deleteCalls>>

\* the write decided on the row read before: clear leftAt, create, or nothing
JoinUpsertRows(ps, existing, meetingId, userId, t) ==
    IF existing.id # NULL
    THEN IF existing.leftAt # NULL THEN RejoinParticipant(ps, existing.id, t) ELSE ps
    ELSE CreateParticipant(ps, meetingId, userId, t)

JoinUpsert(p) ==
    /\ At(p, "join_upsert")
    /\ UNCHANGED calls
    /\ participants' = JoinUpsertRows(participants, proc[p].existing, proc[p].meeting,
                                      proc[p].userId, now)
    /\ proc' = [proc EXCEPT ![p] = [@ EXCEPT !.pc = "join_token", !.existing = NoRow]]
    /\ UNCHANGED <<meetings, now, dailyRooms, dailyLive, deleteCalls>>

\* what the handler returns once Daily answered the meeting-tokens request
TokenResult(self, meeting, ok) ==
    IF ok
    THEN Return(self, [token |-> MintToken(meeting.roomName, self.userId,
                                   ChannelMemberRole(self.channelId, self.userId)
                                       = "CHANNEL_ADMIN"),
                       roomUrl |-> meeting.roomUrl])
    ELSE Throw(self, "BadRequestException", "Failed to create meeting token")

\* the user lookup, then the meeting-tokens request, which may fail
JoinToken(p) ==
    /\ At(p, "join_token")
    /\ UNCHANGED calls
    /\ \E ok \in BOOLEAN :
          proc' = [proc EXCEPT ![p] = TokenResult(@, meetings[proc[p].meeting], ok)]
    /\ UNCHANGED <<meetings, participants, now, dailyRooms, dailyLive, deleteCalls>>

\* ------------------------------------------------------- getJoinToken
GetJoinToken(p, channelId, userId) ==
    /\ CanCall(p)
    /\ \E meeting \in FindActiveByChannel(meetings, channelId) :
          LET self == Call("getJoinToken", channelId, userId, NULL) IN
          proc' = [proc EXCEPT ![p] =
                     IF meeting = NULL
                     THEN Throw(self, "BadRequestException", "No active meeting")
                     ELSE [self EXCEPT !.pc = "token_find", !.meeting = meeting]]
    /\ Admit(p)
    /\ UNCHANGED <<meetings, participants, now, dailyRooms, dailyLive, deleteCalls>>

\* the findFirst of the caller's Participant row, then the user and membership lookups
TokenFindParticipant(p) ==
    /\ At(p, "token_find")
    /\ UNCHANGED calls
    /\ \E participant \in FindParticipant(participants, proc[p].meeting, proc[p].userId) :
          proc' = [proc EXCEPT ![p] =
                     IF participant.id = NULL
                     THEN Throw(@, "ForbiddenException", "You must join the meeting first")
                     ELSE IF ChannelMemberRole(@.channelId, @.userId) = "none"
                     THEN Throw(@, "ForbiddenException",
                                "You are not a member of the channel")
                     ELSE [@ EXCEPT !.pc = "token_mint"]]
    /\ UNCHANGED <<meetings, participants, now, dailyRooms, dailyLive, deleteCalls>>

TokenMint(p) ==
    /\ At(p, "token_mint")
    /\ UNCHANGED calls
    /\ \E ok \in BOOLEAN :
          proc' = [proc EXCEPT ![p] = TokenResult(@, meetings[proc[p].meeting], ok)]
    /\ UNCHANGED <<meetings, participants, now, dailyRooms, dailyLive, deleteCalls>>

\* ------------------------------------------------------- leaveMeeting
\* { message: remaining === 0 ? 'Meeting ended automatically' : 'Left meeting' }
LeaveAnswer(remaining) ==
    [message |-> IF remaining = 0 THEN "Meeting ended automatically" ELSE "Left meeting"]

LeaveMeeting(p, channelId, userId) ==
    /\ CanCall(p)
    /\ \E meeting \in FindActiveByChannel(meetings, channelId) :
          LET self == Call("leaveMeeting", channelId, userId, NULL) IN
          proc' = [proc EXCEPT ![p] =
                     IF meeting = NULL
                     THEN Throw(self, "BadRequestException", "No meeting")
                     ELSE [self EXCEPT !.pc = "leave_mark", !.meeting = meeting]]
    /\ Admit(p)
    /\ UNCHANGED <<meetings, participants, now, dailyRooms, dailyLive, deleteCalls>>

LeaveMark(p) ==
    /\ At(p, "leave_mark")
    /\ UNCHANGED calls
    /\ participants' = MarkLeft(participants, proc[p].meeting, proc[p].userId, now)
    /\ proc' = [proc EXCEPT ![p] = [@ EXCEPT !.pc = "leave_count"]]
    /\ UNCHANGED <<meetings, now, dailyRooms, dailyLive, deleteCalls>>

\* the count of the rows still present; without an end to perform the handler returns
LeaveCount(p) ==
    /\ At(p, "leave_count")
    /\ UNCHANGED calls
    /\ LET remaining == CountPresent(participants, proc[p].meeting) IN
       proc' = [proc EXCEPT ![p] =
                  IF remaining = 0
                  THEN [@ EXCEPT !.pc = "leave_end", !.remaining = remaining]
                  ELSE Return(@, LeaveAnswer(remaining))]
    /\ UNCHANGED <<meetings, participants, now, dailyRooms, dailyLive, deleteCalls>>

\* a leave that goes on to the room deletion without the update of the Meeting row
LeaveEndSkipsUpdate(p) ==
    /\ At(p, "leave_end")
    /\ UNCHANGED calls
    /\ proc' = [proc EXCEPT ![p] = [@ EXCEPT !.pc = "leave_delete"]]
    /\ UNCHANGED <<meetings, participants, now, dailyRooms, dailyLive, deleteCalls>>

\* the update that ends the meeting once nobody is present
LeaveEnd(p) ==
    /\ At(p, "leave_end")
    /\ UNCHANGED calls
    /\ meetings' = EndMeetingRow(meetings, proc[p].meeting, now)
    /\ proc' = [proc EXCEPT ![p] = [@ EXCEPT !.pc = "leave_delete"]]
    /\ UNCHANGED <<participants, now, dailyRooms, dailyLive, deleteCalls>>

\* a leave that lets the failure of the room deletion reach its caller
LeaveDeleteSurfacesFailure(p) ==
    /\ At(p, "leave_delete")
    /\ UNCHANGED calls
    /\ \E ok \in BOOLEAN :
          /\ DeleteDailyRoom(meetings[proc[p].meeting].roomName, ok)
          /\ proc' = [proc EXCEPT ![p] =
                        IF ok THEN Return(@, LeaveAnswer(proc[p].remaining))
                        ELSE Throw(@, "BadRequestException", "Failed to delete Daily room")]
    /\ UNCHANGED <<meetings, participants, now, dailyRooms>>

\* the best-effort room deletion, then the return
LeaveDelete(p) ==
    /\ At(p, "leave_delete")
    /\ UNCHANGED calls
    /\ \E ok \in BOOLEAN : DeleteDailyRoom(meetings[proc[p].meeting].roomName, ok)
    /\ proc' = [proc EXCEPT ![p] = Return(@, LeaveAnswer(proc[p].remaining))]
    /\ UNCHANGED <<meetings, participants, now, dailyRooms>>

\* ------------------------------------------------------- endMeeting
\* an end that also lets the channel admin through
EndCheckAdmitsAdmin(self, meeting) ==
    IF meeting = NULL
    THEN Throw(self, "BadRequestException", "No active meeting")
    ELSE IF meetings[meeting].hostId # self.userId
            /\ ChannelMemberRole(self.channelId, self.userId) # "CHANNEL_ADMIN"
    THEN Throw(self, "ForbiddenException", "Only host can end meeting")
    ELSE [self EXCEPT !.pc = "end_update", !.meeting = meeting,
                      !.wasPresent = Present(participants, meeting)]

\* the two guards of endMeeting on the row the findFirst returned; wasPresent records
\* the rows present in the meeting at that moment (read by no handler)
EndCheck(self, meeting) ==
    IF meeting = NULL
    THEN Throw(self, "BadRequestException", "No active meeting")
    ELSE IF meetings[meeting].hostId # self.userId
    THEN Throw(self, "ForbiddenException", "Only host can end meeting")
    ELSE [self EXCEPT !.pc = "end_update", !.meeting = meeting,
                      !.wasPresent = Present(participants, meeting)]

EndMeeting(p, channelId, userId) ==
    /\ CanCall(p)
    /\ \E meeting \in FindActiveByChannel(meetings, channelId) :
          proc' = [proc EXCEPT ![p] =
                     EndCheck(Call("endMeeting", channelId, userId, NULL), meeting)]
    /\ Admit(p)
    /\ UNCHANGED <<meetings, participants, now, dailyRooms, dailyLive, deleteCalls>>

EndUpdate(p) ==
    /\ At(p, "end_update")
    /\ UNCHANGED calls
    /\ meetings' = EndMeetingRow(meetings, proc[p].meeting, now)
    /\ proc' = [proc EXCEPT ![p] = [@ EXCEPT !.pc = "end_mark"]]
    /\ UNCHANGED <<participants, now, dailyRooms, dailyLive, deleteCalls>>

EndMarkAll(p) ==
    /\ At(p, "end_mark")
    /\ UNCHANGED calls
    /\ participants' = MarkAllLeft(participants, proc[p].meeting, now)
    /\ proc' = [proc EXCEPT ![p] = [@ EXCEPT !.pc = "end_delete"]]
    /\ UNCHANGED <<meetings, now, dailyRooms, dailyLive, deleteCalls>>

EndDelete(p) ==
    /\ At(p, "end_delete")
    /\ UNCHANGED calls
    /\ \E ok \in BOOLEAN : DeleteDailyRoom(meetings[proc[p].meeting].roomName, ok)
    /\ proc' = [proc EXCEPT ![p] = Return(@, [message |-> "Meeting ended"])]
    /\ UNCHANGED <<meetings, participants, now, dailyRooms>>

\* ------------------------------------------------------- forceLeave
\* the webhook names a room Daily created, or a name no meeting ever had
ForceLeave(p, roomName, userId) ==
    /\ CanCall(p)
    /\ roomName <= dailyRooms + 1
    /\ \E meeting \in FindActiveByRoom(meetings, roomName) :
          LET self == Call("forceLeave", "", userId, roomName) IN
          proc' = [proc EXCEPT ![p] =
                     IF meeting = NULL
                     THEN Return(self, [undefined |-> TRUE])
                     ELSE [self EXCEPT !.pc = "force_mark", !.meeting = meeting]]
    /\ Admit(p)
    /\ UNCHANGED <<meetings, participants, now, dailyRooms, dailyLive, deleteCalls>>

ForceMark(p) ==
    /\ At(p, "force_mark")
    /\ UNCHANGED calls
    /\ participants' = MarkLeft(participants, proc[p].meeting, proc[p].userId, now)
    /\ proc' = [proc EXCEPT ![p] = [@ EXCEPT !.pc = "force_count"]]
    /\ UNCHANGED <<meetings, now, dailyRooms, dailyLive, deleteCalls>>

ForceCount(p) ==
    /\ At(p, "force_count")
    /\ UNCHANGED calls
    /\ LET remaining == CountPresent(participants, proc[p].meeting) IN
       proc' = [proc EXCEPT ![p] =
                  IF remaining = 0
                  THEN [@ EXCEPT !.pc = "force_end", !.remaining = remaining]
                  ELSE Return(@, [undefined |-> TRUE])]
    /\ UNCHANGED <<meetings, participants, now, dailyRooms, dailyLive, deleteCalls>>

ForceEnd(p) ==
    /\ At(p, "force_end")
    /\ UNCHANGED calls
    /\ meetings' = EndMeetingRow(meetings, proc[p].meeting, now)
    /\ proc' = [proc EXCEPT ![p] = [@ EXCEPT !.pc = "force_delete"]]
    /\ UNCHANGED <<participants, now, dailyRooms, dailyLive, deleteCalls>>

ForceDelete(p) ==
    /\ At(p, "force_delete")
    /\ UNCHANGED calls
    /\ \E ok \in BOOLEAN : DeleteDailyRoom(meetings[proc[p].meeting].roomName, ok)
    /\ proc' = [proc EXCEPT ![p] = Return(@, [undefined |-> TRUE])]
    /\ UNCHANGED <<meetings, participants, now, dailyRooms>>

\* ------------------------------------------------------- whole handlers
\* A handler run from its first line to its return with no other handler's step in
\* between, as a function of the tables: the set of outcomes it can have.  `meeting`
\* is the row the handler worked on, `deleted` the room it asked Daily to delete.
Outcome(ms, ps, self, deleted) ==
    [meetings |-> ms, participants |-> ps, result |-> self.result,
     meeting |-> self.meeting, deleted |-> deleted]

\* startMeeting, `room` being the name Daily answered with (NULL: the request failed)
RunStartMeeting(ms, ps, channelId, userId, room, t) ==
    LET self == Call("startMeeting", channelId, userId, NULL) IN
    IF channelId \notin Channels
    THEN {Outcome(ms, ps, Throw(self, "BadRequestException", "Channel not found"), NULL)}
    ELSE IF room = NULL
    THEN {Outcome(ms, ps,
                  Throw(self, "BadRequestException", "Failed to create Daily room"), NULL)}
    ELSE {LET checked == StartCheck([self EXCEPT !.room = room], existing)
              row == NewMeeting(ms, channelId, userId, room)
              rows == HostParticipant(ps, row.id, userId, t)
          IN  IF checked.pc = "done"
              THEN Outcome(ms, ps, checked, NULL)
              ELSE Outcome(Append(ms, row), rows,
                           Return([checked EXCEPT !.meeting = row.id],
                                  StartResult(row, FindParticipant(rows, row.id, userId))),
                           NULL)
          : existing \in FindActiveByChannel(ms, channelId)}

RunGetMeeting(ms, ps, channelId) ==
    {IF meeting = NULL THEN [null |-> TRUE] ELSE SafeMeeting(ms[meeting], ps)
     : meeting \in FindActiveByChannel(ms, channelId)}

JoinOutcomes(ms, ps, self, meeting, t) ==
    {Outcome(ms, JoinUpsertRows(ps, existing, meeting, self.userId, t),
             TokenResult([self EXCEPT !.meeting = meeting], ms[meeting], ok), NULL)
     : existing \in FindParticipant(ps, meeting, self.userId), ok \in BOOLEAN}

RunJoinMeeting(ms, ps, channelId, userId, t) ==
    LET self == Call("joinMeeting", channelId, userId, NULL) IN
    IF ChannelMemberRole(channelId, userId) = "none"
    THEN {Outcome(ms, ps, Throw(self, "ForbiddenException",
                                "You are not a member of the channel"), NULL)}
    ELSE UNION {IF meeting = NULL
                THEN {Outcome(ms, ps, Throw(self, "BadRequestException",
                                            "No active meeting"), NULL)}
                ELSE JoinOutcomes(ms, ps, self, meeting, t)
                : meeting \in FindActiveByChannel(ms, channelId)}

LeaveOutcome(ms, ps, self, meeting, t) ==
    LET rows == MarkLeft(ps, meeting, self.userId, t)
        remaining == CountPresent(rows, meeting)
        done == Return([self EXCEPT !.meeting = meeting], LeaveAnswer(remaining))
    IN  IF remaining = 0
        THEN Outcome(EndMeetingRow(ms, meeting, t), rows, done, ms[meeting].roomName)
        ELSE Outcome(ms, rows, done, NULL)

RunLeaveMeeting(ms, ps, channelId, userId, t) ==
    LET self == Call("leaveMeeting", channelId, userId, NULL) IN
    {IF meeting = NULL
     THEN Outcome(ms, ps, Throw(self, "BadRequestException", "No meeting"), NULL)
     ELSE LeaveOutcome(ms, ps, self, meeting, t)
     : meeting \in FindActiveByChannel(ms, channelId)}

\* getJoinToken from the participant lookup to the return
TokenOutcomes(ms, ps, self, meeting) ==
    {IF participant.id = NULL
     THEN Outcome(ms, ps, Throw([self EXCEPT !.meeting = meeting], "ForbiddenException",
                                "You must join the meeting first"), NULL)
     ELSE IF ChannelMemberRole(self.channelId, self.userId) = "none"
     THEN Outcome(ms, ps, Throw([self EXCEPT !.meeting = meeting], "ForbiddenException",
                                "You are not a member of the channel"), NULL)
     ELSE Outcome(ms, ps, TokenResult([self EXCEPT !.meeting = meeting], ms[meeting], ok),
                  NULL)
     : participant \in FindParticipant(ps, meeting, self.userId), ok \in BOOLEAN}

RunGetJoinToken(ms, ps, channelId, userId) ==
    LET self == Call("getJoinToken", channelId, userId, NULL) IN
    UNION {IF meeting = NULL
           THEN {Outcome(ms, ps, Throw(self, "BadRequestException", "No active meeting"),
                         NULL)}
           ELSE TokenOutcomes(ms, ps, self, meeting)
           : meeting \in FindActiveByChannel(ms, channelId)}

\* a force-leave that marks every present row of the meeting left
ForceOutcomeMarksEveryone(ms, ps, self, meeting, t) ==
    LET rows == MarkAllLeft(ps, meeting, t)
        remaining == CountPresent(rows, meeting)
        done == Return([self EXCEPT !.meeting = meeting], [undefined |-> TRUE])
    IN  IF remaining = 0
        THEN Outcome(EndMeetingRow(ms, meeting, t), rows, done, ms[meeting].roomName)
        ELSE Outcome(ms, rows, done, NULL)

\* forceLeave from the updateMany to the return
ForceOutcome(ms, ps, self, meeting, t) ==
    LET rows == MarkLeft(ps, meeting, self.userId, t)
        remaining == CountPresent(rows, meeting)
        done == Return([self EXCEPT !.meeting = meeting], [undefined |-> TRUE])
    IN  IF remaining = 0
        THEN Outcome(EndMeetingRow(ms, meeting, t), rows, done, ms[meeting].roomName)
        ELSE Outcome(ms, rows, done, NULL)

RunForceLeave(ms, ps, roomName, userId, t) ==
    LET self == Call("forceLeave", "", userId, roomName) IN
    {IF meeting = NULL
     THEN Outcome(ms, ps, Return(self, [undefined |-> TRUE]), NULL)
     ELSE ForceOutcome(ms, ps, self, meeting, t)
     : meeting \in FindActiveByRoom(ms, roomName)}

\* ------------------------------------------------------- response
\* the response of a finished handler is delivered; the handler serves the next request
Respond(p) ==
    /\ proc[p].pc = "done"
    /\ UNCHANGED calls
    /\ proc' = [proc EXCEPT ![p] = Idle]
    /\ UNCHANGED <<meetings, participants, now, dailyRooms, dailyLive, deleteCalls>>

\* ------------------------------------------------------- clock
\* timestamps a row holds
UsedTimes ==
    {participants[i].joinedAt : i \in 1..Len(participants)}
        \cup {participants[i].leftAt : i \in 1..Len(participants)}
        \cup {meetings[i].endedAt : i \in 1..Len(meetings)}

\* time passes; a tick that no row could tell from the previous one is skipped
Tick ==
    /\ Settled
    /\ now < MaxTime
    /\ now \in UsedTimes
    /\ now' = now + 1
    /\ UNCHANGED <<meetings, participants, dailyRooms, dailyLive, deleteCalls, proc, calls>>

\* ------------------------------------------------------- specification
Init ==
    /\ meetings = <<>>
    /\ participants = <<>>
    /\ now = 1
    /\ dailyRooms = 0
    /\ dailyLive = {}
    /\ deleteCalls = <<>>
    /\ proc = [p \in Procs |-> Idle]
    /\ calls = 0

Next ==
    \/ \E p \in Procs, c \in ChannelIds, u \in Users : StartMeeting(p, c, u)
    \/ \E p \in Procs : StartFindExisting(p)
    \/ \E p \in Procs : StartCreate(p)
    \/ \E p \in Procs, c \in Channels : GetMeeting(p, c)
    \/ \E p \in Procs, c \in Channels, u \in Users : JoinMeeting(p, c, u)
    \/ \E p \in Procs : JoinFindExisting(p)
    \/ \E p \in Procs : JoinUpsert(p)
    \/ \E p \in Procs : JoinToken(p)
    \/ \E p \in Procs, c \in Channels, u \in Users : GetJoinToken(p, c, u)
    \/ \E p \in Procs : TokenFindParticipant(p)
    \/ \E p \in Procs : TokenMint(p)
    \/ \E p \in Procs, c \in Channels, u \in Users : LeaveMeeting(p, c, u)
    \/ \E p \in Procs : LeaveMark(p)
    \/ \E p \in Procs : LeaveCount(p)
    \/ \E p \in Procs : LeaveEnd(p)
    \/ \E p \in Procs : LeaveDelete(p)
    \/ \E p \in Procs, c \in Channels, u \in Users : EndMeeting(p, c, u)
    \/ \E p \in Procs : EndUpdate(p)
    \/ \E p \in Procs : EndMarkAll(p)
    \/ \E p \in Procs : EndDelete(p)
    \/ \E p \in Procs, r \in RoomNames, u \in Users : ForceLeave(p, r, u)
    \/ \E p \in Procs : ForceMark(p)
    \/ \E p \in Procs : ForceCount(p)
    \/ \E p \in Procs : ForceEnd(p)
    \/ \E p \in Procs : ForceDelete(p)
    \/ \E p \in Procs : Respond(p)
    \/ Tick

Spec == Init /\ [][Next]_vars

\* Every started handler runs to completion: once the database or the provider has
\* answered, the continuation of the await runs and the response is sent.  No
\* fairness is asked of the arrival of requests or of the clock.
Continue(p) ==
    \/ StartFindExisting(p) \/ StartCreate(p)
    \/ JoinFindExisting(p) \/ JoinUpsert(p) \/ JoinToken(p)
    \/ TokenFindParticipant(p) \/ TokenMint(p)
    \/ LeaveMark(p) \/ LeaveCount(p) \/ LeaveEnd(p) \/ LeaveDelete(p)
    \/ EndUpdate(p) \/ EndMarkAll(p) \/ EndDelete(p)
    \/ ForceMark(p) \/ ForceCount(p) \/ ForceEnd(p) \/ ForceDelete(p)
    \/ Respond(p)

FairSpec == Spec /\ \A p \in Procs : WF_vars(Continue(p))

\* ------------------------------------------------------- properties
Rows(ps, meetingId, userId) ==
    {i \in 1..Len(ps) : ps[i].meetingId = meetingId /\ ps[i].userId = userId}

\* no handler is in the middle of a request
Quiet == \A p \in Procs : proc[p].pc \in {"idle", "done"}

\* a provider room that no Meeting row names and no running startMeeting holds
Leaked(r) ==
    /\ r \in 1..dailyRooms
    /\ \A m \in 1..Len(meetings) : meetings[m].roomName # r
    /\ \A p \in Procs : ~(proc[p].pc \in {"start_find", "start_create"} /\ proc[p].room = r)

\* handler p has just answered a request `op`
Answered(p, op) == proc[p].pc = "done" /\ proc[p].op = op

\* this step is handler p taking up a request `op`
Takes(p, op) == proc[p].pc = "idle" /\ proc'[p].pc # "idle" /\ proc'[p].op = op

\* C1: in every reachable state every channel has at most one Meeting row with
\* isActive = true, whatever startMeeting calls race on it.
C1_OneActiveMeetingPerChannel ==
    \A c \in Channels : Cardinality(ActiveByChannel(meetings, c)) <= 1

\* C2: in every reachable state there is at most one Participant row per
\* (meetingId, userId) pair.
C2_OneRowPerMeetingAndUser ==
    \A m \in 1..Len(meetings), u \in Users : Cardinality(Rows(participants, m, u)) <= 1

\* C3: when startMeeting makes its check on a channel that has an active Meeting, the
\* call fails with 'Meeting already active', returns no meeting, and no Meeting or
\* Participant row changes.
C3_StartWhileActiveFails ==
    [][\A p \in Procs :
          (/\ proc[p].pc = "start_find"
           /\ proc'[p] # proc[p]
           /\ ActiveByChannel(meetings, proc[p].channelId) # {})
          => /\ proc'[p].pc = "done"
             /\ proc'[p].result.exc = "BadRequestException"
             /\ proc'[p].result.message = "Meeting already active"
             /\ proc'[p].result.value = Nothing
             /\ meetings' = meetings
             /\ participants' = participants]_vars

C3_Witness ==
    \E p \in Procs :
        /\ Answered(p, "startMeeting")
        /\ proc[p].result.message = "Meeting already active"
        /\ ActiveByChannel(meetings, proc[p].channelId) # {}

\* C4: every Meeting row has a Participant row of its hostId in every reachable state,
\* and when startMeeting returns, the row it created is active with hostId = caller
\* and endedAt = null, and the host's row has leftAt = null.
C4_MeetingCreatedWithHost ==
    /\ \A m \in 1..Len(meetings) : Rows(participants, m, meetings[m].hostId) # {}
    /\ \A p \in Procs :
          (Answered(p, "startMeeting") /\ proc[p].result.exc = "")
          => LET m == proc[p].meeting IN
             /\ m = Len(meetings)
             /\ meetings[m].isActive
             /\ meetings[m].hostId = proc[p].userId
             /\ meetings[m].channelId = proc[p].channelId
             /\ meetings[m].endedAt = NULL
             /\ \E i \in Rows(participants, m, proc[p].userId) :
                   participants[i].leftAt = NULL
             /\ proc[p].result.value.id = m
             /\ proc[p].result.value.participants
                   = {participants[i] : i \in Rows(participants, m, proc[p].userId)}

C4_Witness ==
    \E p \in Procs :
        /\ Answered(p, "startMeeting")
        /\ proc[p].result.exc = ""
        /\ Len(meetings) = 2

\* C8: endMeeting by a user who hosts no active meeting of the channel fails with
\* Forbidden ('Only host can end meeting') when the channel has an active meeting and
\* with 'No active meeting' when it has none; in both cases no Meeting or Participant
\* row changes and the provider receives no delete request.
C8_EndByNonHostFails ==
    [][\A p \in Procs :
          (/\ Takes(p, "endMeeting")
           /\ \A m \in ActiveByChannel(meetings, proc'[p].channelId) :
                 meetings[m].hostId # proc'[p].userId)
          => /\ proc'[p].pc = "done"
             /\ proc'[p].result.value = Nothing
             /\ IF ActiveByChannel(meetings, proc'[p].channelId) = {}
                THEN /\ proc'[p].result.exc = "BadRequestException"
                     /\ proc'[p].result.message = "No active meeting"
                ELSE /\ proc'[p].result.exc = "ForbiddenException"
                     /\ proc'[p].result.message = "Only host can end meeting"
             /\ meetings' = meetings
             /\ participants' = participants
             /\ deleteCalls' = deleteCalls
             /\ dailyLive' = dailyLive]_vars

\* the channel admin, who is not the host, was refused
C8_Witness ==
    \E p \in Procs :
        /\ Answered(p, "endMeeting")
        /\ proc[p].result.exc = "ForbiddenException"
        /\ ChannelMemberRole(proc[p].channelId, proc[p].userId) = "CHANNEL_ADMIN"
        /\ ActiveByChannel(meetings, proc[p].channelId) # {}

\* C9: forceLeave with a room name that no active Meeting has returns without error,
\* changes no Meeting or Participant row and sends the provider no delete request.
C9_ForceLeaveUnknownRoomIsNoOp ==
    [][\A p \in Procs :
          (/\ Takes(p, "forceLeave")
           /\ \A m \in 1..Len(meetings) :
                 ~(meetings[m].roomName = proc'[p].roomName /\ meetings[m].isActive))
          => /\ proc'[p].pc = "done"
             /\ proc'[p].result.exc = ""
             /\ proc'[p].result.value = [undefined |-> TRUE]
             /\ meetings' = meetings
             /\ participants' = participants
             /\ deleteCalls' = deleteCalls
             /\ dailyLive' = dailyLive]_vars

\* the webhook named the room of a meeting that had already ended
C9_Witness ==
    \E p \in Procs :
        /\ Answered(p, "forceLeave")
        /\ proc[p].meeting = NULL
        /\ \E m \in 1..Len(meetings) :
              meetings[m].roomName = proc[p].roomName /\ ~meetings[m].isActive

C6_RejoinRefreshesRow ==
    \A c \in Channels, u \in Users :
    \A m \in ActiveByChannel(meetings, c) :
        (/\ Quiet
         /\ ChannelMemberRole(c, u) # "none"
         /\ \E i \in Present(participants, m) : participants[i].userId = u
         /\ \E i \in Present(participants, m) : participants[i].userId # u)
        => \A l \in RunLeaveMeeting(meetings, participants, c, u, now) :
           \A t \in {now, now + 1} :
           \A j \in RunJoinMeeting(l.meetings, l.participants, c, u, t) :
               (l.meeting = m /\ j.meeting = m)
               => /\ Len(j.participants) = Len(participants)
                  /\ \A i \in Rows(participants, m, u) :
                        /\ j.participants[i].id = participants[i].id
                        /\ j.participants[i].leftAt = NULL
                        /\ j.participants[i].joinedAt = t

\* C7: startMeeting by H on a channel and then leaveMeeting by H, nobody else having
\* joined, leave the Meeting ended (isActive = false, endedAt set) and H's row with
\* leftAt set, and getMeeting on the channel then returns none.
C7_StartThenHostLeaveEnds ==
    \A c \in Channels, h \in Users :
    \A s \in RunStartMeeting(meetings, participants, c, h, dailyRooms + 1, now) :
        s.result.exc = ""
        => \A t \in {now, now + 1} :
           \A l \in RunLeaveMeeting(s.meetings, s.participants, c, h, t) :
               /\ l.result.exc = ""
               /\ l.meeting = s.meeting
               /\ ~l.meetings[s.meeting].isActive
               /\ l.meetings[s.meeting].endedAt = t
               /\ \A i \in Rows(l.participants, s.meeting, h) :
                     l.participants[i].leftAt = t
               /\ RunGetMeeting(l.meetings, l.participants, c) = {[null |-> TRUE]}

\* the host's leave ended the meeting it had started, and the channel has none now
C7_Witness ==
    \E p \in Procs :
        /\ Answered(p, "leaveMeeting")
        /\ proc[p].result.value = LeaveAnswer(0)
        /\ meetings[proc[p].meeting].hostId = proc[p].userId
        /\ ~meetings[proc[p].meeting].isActive
        /\ Present(participants, proc[p].meeting) = {}
        /\ RunGetMeeting(meetings, participants, proc[p].channelId) = {[null |-> TRUE]}
        /\ \E h \in Users :
           \E s \in RunStartMeeting(meetings, participants, proc[p].channelId, h,
                                    dailyRooms + 1, now) : s.result.exc = ""

\* C10: with no request in progress, leaveMeeting by a caller with no row present in
\* the channel's meetings (the caller left already, or never joined) returns normally
\* and changes no Meeting or Participant row, also when the channel has no active
\* meeting any more.
C10_LeaveAgainIsNoOp ==
    \A c \in Channels, u \in Users :
        (/\ Quiet
         /\ \E m \in 1..Len(meetings) : meetings[m].channelId = c
         /\ \A i \in 1..Len(participants) :
               (participants[i].userId = u
                    /\ meetings[participants[i].meetingId].channelId = c)
               => participants[i].leftAt # NULL)
        => \A l \in RunLeaveMeeting(meetings, participants, c, u, now) :
               /\ l.result.exc = ""
               /\ l.meetings = meetings
               /\ l.participants = participants

\* C11: in every state with no request in progress, every Participant row of a
\* Meeting with isActive = false has leftAt set.
C11_NoOnePresentInEndedMeeting ==
    Quiet => \A i \in 1..Len(participants) :
                 ~meetings[participants[i].meetingId].isActive
                 => participants[i].leftAt # NULL

\* C12: while endMeeting is running, the Meeting it ends never has isActive = false
\* with a participant that was present when endMeeting began still having
\* leftAt = null.
C12_EndMarksAllAtomically ==
    \A p \in Procs :
        (/\ proc[p].op = "endMeeting"
         /\ proc[p].pc \in {"end_update", "end_mark", "end_delete"}
         /\ ~meetings[proc[p].meeting].isActive)
        => \A i \in proc[p].wasPresent : participants[i].leftAt # NULL

\* C13: a Meeting row with isActive = false keeps isActive = false in every step, and
\* a channel without an active meeting gets one only by a new row that startMeeting
\* inserts.
C13_EndedIsTerminal ==
    [][/\ \A m \in 1..Len(meetings) :
             /\ m <= Len(meetings')
             /\ ~meetings[m].isActive => ~meetings'[m].isActive
       /\ \A c \in Channels :
             (ActiveByChannel(meetings, c) = {} /\ ActiveByChannel(meetings', c) # {})
             => /\ ActiveByChannel(meetings', c) = {Len(meetings) + 1}
                /\ \E p \in Procs : /\ proc[p].op = "startMeeting"
                                     /\ proc[p].pc = "start_create"
                                     /\ proc[p].channelId = c
                                     /\ proc'[p].pc = "done"]_vars

\* a channel whose meeting ended has a new active meeting, and the ended row stays
\* ended
C13_Witness ==
    \E m1 \in 1..Len(meetings), m2 \in 1..Len(meetings) :
        /\ m1 < m2
        /\ meetings[m1].channelId = meetings[m2].channelId
        /\ ~meetings[m1].isActive
        /\ meetings[m2].isActive

\* C14: in every reachable state, every Meeting row has endedAt set if and only if
\* its isActive is false.
C14_EndedAtIffInactive ==
    \A m \in 1..Len(meetings) : (meetings[m].endedAt # NULL) <=> ~meetings[m].isActive

\* an ended row (endedAt set) next to an active one (endedAt null)
C14_Witness ==
    \E m1 \in 1..Len(meetings), m2 \in 1..Len(meetings) :
        /\ ~meetings[m1].isActive /\ meetings[m1].endedAt # NULL
        /\ meetings[m2].isActive /\ meetings[m2].endedAt = NULL

\* C15: every step in which the provider receives a delete request for a room is
\* taken when the Meeting row of that room is already written as ended
\* (isActive = false); no delete request is sent for the room of an active meeting.
C15_DeleteOnlyAfterEnded ==
    [][\A r \in 1..Len(deleteCalls) :
          deleteCalls'[r] > deleteCalls[r]
          => /\ \E m \in 1..Len(meetings) : meetings[m].roomName = r
             /\ \A m \in 1..Len(meetings) :
                   meetings[m].roomName = r => ~meetings[m].isActive]_vars

\* leaveMeeting, endMeeting or forceLeave has returned after asking the provider to
\* delete the room of the meeting it ended
C15_Witness ==
    \E p \in Procs :
        /\ proc[p].pc = "done"
        /\ proc[p].op \in {"leaveMeeting", "endMeeting", "forceLeave"}
        /\ proc[p].meeting # NULL
        /\ ~meetings[proc[p].meeting].isActive
        /\ deleteCalls[meetings[proc[p].meeting].roomName] >= 1

\* C16: the step of leaveMeeting, endMeeting and forceLeave that asks the provider to
\* delete the room returns the same value and leaves the same Meeting and Participant
\* rows whether the provider deletes the room or fails: no error is raised and the
\* Meeting stays ended.
C16_DeleteFailureIsSwallowed ==
    [][\A p \in Procs :
          (proc[p].pc \in {"leave_delete", "end_delete", "force_delete"}
              /\ proc'[p] # proc[p])
          => /\ proc'[p].pc = "done"
             /\ proc'[p].result.exc = ""
             /\ proc'[p].result.value =
                   (CASE proc[p].op = "leaveMeeting" -> [message |-> "Meeting ended automatically"]
                      [] proc[p].op = "endMeeting" -> [message |-> "Meeting ended"]
                      [] proc[p].op = "forceLeave" -> [undefined |-> TRUE])
             /\ meetings' = meetings
             /\ participants' = participants
             /\ ~meetings'[proc[p].meeting].isActive]_vars

\* a handler has returned normally although the provider failed to delete the room
C16_Witness ==
    \E p \in Procs :
        /\ proc[p].pc = "done"
        /\ proc[p].op \in {"leaveMeeting", "endMeeting", "forceLeave"}
        /\ proc[p].result.exc = ""
        /\ proc[p].meeting # NULL
        /\ ~meetings[proc[p].meeting].isActive
        /\ deleteCalls[meetings[proc[p].meeting].roomName] = 1
        /\ meetings[proc[p].meeting].roomName \in dailyLive

\* C17: a startMeeting on an existing channel whose createRoom request fails, or is
\* answered without a room name or id, fails with the provider error
\* ('Failed to create Daily room') and creates no Meeting row and no Participant row.
C17_RoomFailureAbortsStart ==
    [][\A p \in Procs :
          (/\ Takes(p, "startMeeting")
           /\ proc'[p].channelId \in Channels
           /\ dailyRooms' = dailyRooms)
          => /\ proc'[p].pc = "done"
             /\ proc'[p].result.exc = "BadRequestException"
             /\ proc'[p].result.message \in
                   {"Failed to create Daily room",
                    "Failed to create Daily room: Daily API responded without room name/id"}
             /\ proc'[p].result.value = Nothing
             /\ meetings' = meetings
             /\ participants' = participants]_vars

\* the provider answered without a room name and the start failed, on a channel that
\* could have started a meeting
C17_Witness ==
    \E p \in Procs :
        /\ Answered(p, "startMeeting")
        /\ proc[p].result.message
              = "Failed to create Daily room: Daily API responded without room name/id"
        /\ ActiveByChannel(meetings, proc[p].channelId) = {}

\* C18: joinMeeting by a caller without a membership record of the channel fails with
\* Forbidden, and by a member on a channel without an active Meeting fails with
\* 'No active meeting'; in both cases the handler ends there: no Participant row is
\* created or changed and no token is requested.
C18_JoinPreconditions ==
    [][\A p \in Procs :
          (/\ Takes(p, "joinMeeting")
           /\ \/ ChannelMemberRole(proc'[p].channelId, proc'[p].userId) = "none"
              \/ ActiveByChannel(meetings, proc'[p].channelId) = {})
          => /\ proc'[p].pc = "done"
             /\ proc'[p].result.value = Nothing
             /\ IF ChannelMemberRole(proc'[p].channelId, proc'[p].userId) = "none"
                THEN /\ proc'[p].result.exc = "ForbiddenException"
                     /\ proc'[p].result.message = "You are not a member of the channel"
                ELSE /\ proc'[p].result.exc = "BadRequestException"
                     /\ proc'[p].result.message = "No active meeting"
             /\ participants' = participants
             /\ meetings' = meetings]_vars

\* a user without membership was refused on a channel whose meeting is active
C18_Witness ==
    \E p \in Procs :
        /\ Answered(p, "joinMeeting")
        /\ proc[p].result.exc = "ForbiddenException"
        /\ ChannelMemberRole(proc[p].channelId, proc[p].userId) = "none"
        /\ ActiveByChannel(meetings, proc[p].channelId) # {}

\* C19: when joinMeeting by a member fails at the token request (no request in
\* progress before it), the call fails with the provider error and the caller's row in
\* the meeting is committed with leftAt = null; a retry of joinMeeting leaves exactly
\* one Participant row of that (meeting, user).
C19_TokenFailureKeepsUpsert ==
    \A c \in Channels, u \in Users :
        (Quiet /\ ChannelMemberRole(c, u) # "none")
        => \A j1 \in RunJoinMeeting(meetings, participants, c, u, now) :
              (j1.result.exc # "" /\ j1.meeting # NULL)
              => /\ j1.result.exc = "BadRequestException"
                 /\ j1.result.message = "Failed to create meeting token"
                 /\ \E i \in Rows(j1.participants, j1.meeting, u) :
                       j1.participants[i].leftAt = NULL
                 /\ \A t \in {now, now + 1} :
                    \A j2 \in RunJoinMeeting(j1.meetings, j1.participants, c, u, t) :
                        Cardinality(Rows(j2.participants, j1.meeting, u)) = 1

\* C20: a leaveMeeting call reports 'Meeting ended automatically' exactly when it has
\* performed the Active-to-Ended transition of the Meeting row itself, and reports
\* 'Left meeting' when it counted a participant still present after marking the
\* caller left; of concurrent leaves at most one performs, and reports, the end.
C20_LeaveReportsItsOwnEnd ==
    [][\A p \in Procs :
          (proc[p].op = "leaveMeeting" /\ proc'[p] # proc[p])
          => LET m == proc[p].meeting IN
             /\ (proc[p].pc = "leave_end")
                   => /\ meetings[m].isActive
                      /\ ~meetings'[m].isActive
             /\ (proc[p].pc = "leave_delete")
                   => /\ proc'[p].pc = "done"
                      /\ proc'[p].result.value = [message |-> "Meeting ended automatically"]
             /\ (proc[p].pc = "leave_count" /\ proc'[p].pc = "done")
                   => /\ proc'[p].result.value = [message |-> "Left meeting"]
                      /\ Present(participants, m) # {}
                      /\ meetings' = meetings
             /\ (proc[p].pc = "leave_count" /\ proc'[p].pc # "done")
                   => /\ proc'[p].pc = "leave_end"
                      /\ Present(participants, m) = {}]_vars

\* C21: for every active Meeting M of a channel C, with room name R, and every user
\* u, forceLeave(R, u) and a leaveMeeting(C, u) that matches M leave the same Meeting
\* rows and Participant rows and make the same room-deletion attempt: u is marked left
\* only if present, and the meeting is ended and its room deleted if and only if
\* nobody remains present.
C21_ForceLeaveEqualsLeave ==
    \A m \in 1..Len(meetings), u \in Users :
        meetings[m].isActive
        => LET C == meetings[m].channelId
               R == meetings[m].roomName
               leaves == {l \in RunLeaveMeeting(meetings, participants, C, u, now) :
                             l.meeting = m}
               forces == RunForceLeave(meetings, participants, R, u, now)
               Effect(o) == <<o.meetings, o.participants, o.deleted>>
           IN  /\ leaves # {}
               /\ forces # {}
               /\ {Effect(l) : l \in leaves} = {Effect(f) : f \in forces}
               /\ \A f \in forces :
                     /\ f.meeting = m
                     /\ f.result.exc = ""
                     /\ \A i \in 1..Len(participants) :
                           f.participants[i] # participants[i]
                           => /\ i \in Present(participants, m)
                              /\ participants[i].userId = u
                     /\ (f.deleted = R) <=> (Present(f.participants, m) = {})
                     /\ (f.deleted = NULL) <=> (Present(f.participants, m) # {})
                     /\ ~f.meetings[m].isActive <=> (Present(f.participants, m) = {})

\* a forceLeave has marked the last present user left, ended the meeting and asked
\* for the deletion of its room, as leaveMeeting by that user does from the row state
\* it ran on
C21_Witness ==
    \E p \in Procs :
        /\ Answered(p, "forceLeave")
        /\ proc[p].meeting # NULL
        /\ ~meetings[proc[p].meeting].isActive
        /\ Present(participants, proc[p].meeting) = {}
        /\ deleteCalls[meetings[proc[p].meeting].roomName] >= 1
        /\ \E i \in Rows(participants, proc[p].meeting, proc[p].userId) :
              participants[i].leftAt # NULL

\* C22: getMeeting changes no Meeting or Participant row and calls no provider
\* operation; it returns null when the channel has no active Meeting and otherwise an
\* active Meeting of the channel with its participants, in a projection that has
\* neither the room URL nor the room name.
C22_GetMeetingIsPureRead ==
    [][\A p \in Procs :
          Takes(p, "getMeeting")
          => LET c == proc'[p].channelId
                 v == proc'[p].result.value
             IN  /\ proc'[p].pc = "done"
                 /\ proc'[p].result.exc = ""
                 /\ <<meetings, participants, dailyRooms, dailyLive, deleteCalls>>'
                       = <<meetings, participants, dailyRooms, dailyLive, deleteCalls>>
                 /\ IF ActiveByChannel(meetings, c) = {}
                    THEN v = [null |-> TRUE]
                    ELSE /\ "roomUrl" \notin DOMAIN v
                         /\ "roomName" \notin DOMAIN v
                         /\ v.id \in ActiveByChannel(meetings, c)
                         /\ v.isActive
                         /\ v.channelId = c
                         /\ v.hostId = meetings[v.id].hostId
                         /\ v.participants
                               = {participants[i] : i \in
                                    {j \in 1..Len(participants) :
                                        participants[j].meetingId = v.id}}]_vars

\* getMeeting has returned the active meeting of a channel
C22_Witness ==
    \E p \in Procs :
        /\ Answered(p, "getMeeting")
        /\ proc[p].meeting # NULL
        /\ meetings[proc[p].meeting].isActive
        /\ proc[p].result.value.id = proc[p].meeting

\* C23: startMeeting on a channel that does not exist fails with 'Channel not found'
\* before any side effect: the provider is asked for no room and no Meeting or
\* Participant row is created.
C23_StartOnMissingChannelFails ==
    [][\A p \in Procs :
          (Takes(p, "startMeeting") /\ proc'[p].channelId \notin Channels)
          => /\ proc'[p].pc = "done"
             /\ proc'[p].result.exc = "BadRequestException"
             /\ proc'[p].result.message = "Channel not found"
             /\ proc'[p].result.value = Nothing
             /\ <<meetings, participants, dailyRooms, dailyLive, deleteCalls>>'
                   = <<meetings, participants, dailyRooms, dailyLive, deleteCalls>>]_vars

\* a start on the missing channel was refused while other channels have meetings
C23_Witness ==
    \E p \in Procs :
        /\ Answered(p, "startMeeting")
        /\ proc[p].channelId \notin Channels
        /\ proc[p].result.message = "Channel not found"
        /\ Len(meetings) >= 1
        /\ dailyRooms = Len(meetings)

\* C24: when a startMeeting call fails with 'Meeting already active', the provider
\* room it created is leaked: no Meeting row names it, it still exists at the
\* provider, and in every later step it stays unnamed and undeleted (the provider
\* receives no delete request for it).
C24_LoserRoomIsLeaked ==
    [][/\ \A p \in Procs :
             (proc[p].pc = "start_find" /\ proc'[p].pc = "done")
             => /\ proc'[p].result.message = "Meeting already active"
                /\ proc[p].room # NULL
                /\ Leaked(proc[p].room)'
                /\ proc[p].room \in dailyLive'
                /\ deleteCalls'[proc[p].room] = 0
       /\ \A r \in 1..dailyRooms :
             Leaked(r)
             => /\ Leaked(r)'
                /\ r \in dailyLive'
                /\ deleteCalls'[r] = 0]_vars

\* the room of a failed start is still at the provider after a meeting has ended and
\* its room has been deleted
C24_Witness ==
    \E r \in 1..dailyRooms, r2 \in 1..dailyRooms :
        /\ Leaked(r)
        /\ r \in dailyLive
        /\ deleteCalls[r] = 0
        /\ deleteCalls[r2] >= 1
        /\ r2 \notin dailyLive
        /\ \A m \in 1..Len(meetings) : ~meetings[m].isActive

\* the Meeting row m is active and none of its Participant rows is present
ActiveAndEmpty(m) ==
    /\ m <= Len(meetings)
    /\ meetings[m].isActive
    /\ Present(participants, m) = {}

C26_RoomDeletedAtMostOnce ==
    \A m \in 1..Len(meetings) : deleteCalls[meetings[m].roomName] <= 1

\* C27: no operation returns a token, a room URL or a room name to a caller who has no
\* membership record of the channel (getMeeting returns none of them to anybody).
C27_NoConnectionMaterialForNonMembers ==
    \A p \in Procs :
        (/\ proc[p].pc = "done"
         /\ proc[p].op \in {"startMeeting", "getMeeting", "joinMeeting", "getJoinToken"}
         /\ \/ proc[p].op = "getMeeting"
            \/ ChannelMemberRole(proc[p].channelId, proc[p].userId) = "none")
        => DOMAIN proc[p].result.value \cap {"token", "roomUrl", "roomName"} = {}

\* C28: with no request in progress, a joinMeeting or getJoinToken call that returns a
\* token for user u returns it for an active Meeting of the channel in which a
\* Participant row of u has leftAt = null when the token is returned.
C28_TokenOnlyForPresentUser ==
    Quiet
    => \A c \in Channels, u \in Users :
       \A o \in RunJoinMeeting(meetings, participants, c, u, now)
                    \cup RunGetJoinToken(meetings, participants, c, u) :
           o.result.exc = ""
           => /\ o.meetings[o.meeting].isActive
              /\ o.meetings[o.meeting].channelId = c
              /\ o.result.value.token.user_id = u
              /\ \E i \in Present(o.participants, o.meeting) :
                    o.participants[i].userId = u

\* C29: a Meeting row with isActive = false is changed by no step: in particular its
\* endedAt keeps the value written by the operation that ended it.
C29_EndedRowIsFrozen ==
    [][\A m \in 1..Len(meetings) :
          ~meetings[m].isActive => meetings'[m] = meetings[m]]_vars

====
